---- MODULE Spec2Model ----
(***************************************************************************)
(* KanAIRy backend: the request handlers of backend/main.py, the session   *)
(* cache and trade facade of backend/metaapi_client.py and the document    *)
(* store gateway of backend/appwrite_client.py, as a state machine.        *)
(*                                                                         *)
(* Scheduling: one event loop.  A handler runs without interruption from   *)
(* one await to the next; the document-store calls are blocking calls of   *)
(* the requests library and are therefore part of the step that makes      *)
(* them.  Each action below is one such step: the completion of the call   *)
(* the handler awaits (its effect at the trading backend included) and the *)
(* handler's code up to the next await.                                    *)
(***************************************************************************)
EXTENDS Integers, Sequences, FiniteSets, TLC

VARIABLES
    configured,   \* main.py: metaapi_client is not None
    users,        \* document store, Users collection: Seq of documents, $id = index
    positions,    \* document store, Positions collection: Seq of documents
    accounts,     \* MetaAPIClient.accounts: login -> [account, connection]
    registry,     \* trading backend: the account registry, id = index
    deployed,     \* trading backend: ids of the deployed accounts
    connections,  \* RPC connection objects made by get_rpc_connection, id = index
    orders,       \* trading backend: number of market orders executed
    reqs,         \* the request handlers in flight, one per slot
    arrivals,     \* requests accepted so far
    faults,       \* failed calls so far (store or trading backend)
    overlapped,   \* history: some request arrived while another was in flight
    connected,    \* history: logins for which connect_account has returned
    gateway,      \* the gateway operation issued last and what it returned
    schema,       \* document store: database, collections and their attributes
    provision,    \* initialize_database: its position, its runs, its create calls
    cipher,       \* encryption.py: the values of an encrypt / decrypt exchange
    news          \* document store, News collection, and the last GET /api/news

\* The state the request handlers work on, and the state of the components
\* exercised on their own (gateway operations, provisioning, cipher).
main == <<configured, users, positions, accounts, registry, deployed,
          connections, orders, reqs, arrivals, faults, overlapped, connected>>
side == <<gateway, schema, provision, cipher, news>>
\* main without the two document collections
handlers == <<configured, accounts, registry, deployed, connections, orders,
              reqs, arrivals, faults, overlapped, connected>>
vars == <<main, side>>

---------------------------------------------------------------------------
(* Bounds and input domains *)

MaxArrivals == 3
MaxFaults == 1
MaxDocId == 2
MaxDocs == 1         \* documents per collection when the gateway is run alone
MaxCollections == 2  \* configured collections that provisioning goes through
MaxAttributes == 2   \* configured attributes per collection
MaxPassword == 3     \* passwords, as byte strings, are 0 .. MaxPassword
MaxNews == 4         \* documents the News collection holds at most

Req == {1, 2}
Logins == {"100200", "100300"}
Servers == {"Demo-1", "Demo-2"}
\* The (login, server) pairs connect requests are made for.
Pairs == {<<"100200", "Demo-1">>, <<"100200", "Demo-2">>, <<"100300", "Demo-1">>}
DocIds == 1 .. MaxDocId
\* TradeRequest.type is any string: the two documented values, another
\* spelling of one of them, and a value that is neither.
TradeTypes == {"buy", "sell", "BUY", "hold"}
StatusParams == {"open", "closed"}
Balances == {100}
Kinds == {"connect", "user", "account", "trade", "positions", "close"}

NoId == 0        \* None in place of a document or account id
NoConn == 0      \* no connection: the facade raised "Account not connected"
NotHttp == 0     \* an exception that is no HTTPException (KeyError, Exception)
Absent == -1     \* a key the execution result does not have

\* Execution results of the broker: with 'openPrice' and 'price', with 'price'
\* only, with neither.
Results == {[openPrice |-> 7, price |-> 9],
            [openPrice |-> Absent, price |-> 9],
            [openPrice |-> Absent, price |-> Absent]}
NoResult == [openPrice |-> Absent, price |-> Absent]

---------------------------------------------------------------------------
(* Calls a handler issues, as recorded in its trace *)

Call(name, on) == [call |-> name, on |-> on]

StoreCalls == {"list_users", "create_user", "get_user", "update_user",
               "list_positions", "get_position", "create_position",
               "update_position"}
RegistryCalls == {"get_accounts", "create_account"}
AccountCalls == {"deploy", "wait_deployed", "wait_connected"}
SequenceCalls == {"connect", "wait_synchronized"}
ConnectionCalls == {"connect", "wait_synchronized", "get_account_information",
                    "create_market_buy_order", "create_market_sell_order",
                    "get_positions", "close_position"}
BrokerCalls == RegistryCalls \cup AccountCalls \cup ConnectionCalls

ConnectAwaits == {"get_accounts", "create_account", "deploy", "wait_deployed",
                  "wait_connected", "connect", "wait_synchronized",
                  "get_account_information"}

CallNames(t) == {t[i].call : i \in 1 .. Len(t)}
CallsOf(t, names) == {i \in 1 .. Len(t) : t[i].call \in names}

---------------------------------------------------------------------------
(* Document store gateway *)

\* What a gateway operation hands back: a document ("doc", with its $id), the
\* payload {"error": ...}, the empty payload {}, a listing answer with its
\* "documents", a list of documents, None, or an exception leaving the gateway.
Payload(kind, id, ids) == [kind |-> kind, id |-> id, ids |-> ids]
ErrorPayload == Payload("error", NoId, {})
Methods == {"GET", "POST", "PUT", "DELETE", "PATCH"}

\* Variant: a failed exchange is re-raised to the caller.
MakeRequestReraises(method, ok, answer) ==
    IF method \notin Methods THEN Payload("raise", NoId, {})
    ELSE IF ok THEN answer
    ELSE Payload("raise", NoId, {})

\* _make_request: ok stands for "requests returned a response and
\* raise_for_status passed".  Both failures (no response, a 4xx/5xx response)
\* are RequestExceptions, caught and turned into {"error": ...}; the ValueError
\* of an unsupported method is none and leaves the gateway.
MakeRequest(method, ok, answer) ==
    IF method \notin Methods THEN Payload("raise", NoId, {})
    ELSE IF ok THEN answer
    ELSE ErrorPayload

\* The document id exists in the collection (a deleted document keeps its
\* place in the sequence, marked).
Exists(coll, id) == id \in 1 .. Len(coll) /\ ~coll[id].deleted

\* _make_request for GET .../documents/{id}: the document on a 2xx answer, the
\* payload {"error": ...} on a transport failure or a non-2xx (not found) answer.
MakeRequestGet(coll, id, ok) ==
    MakeRequest("GET", ok /\ Exists(coll, id), Payload("doc", id, {}))

\* get_user_by_id / get_position_by_id: the payload as _make_request returns it
\* (the try/except around it never triggers: _make_request does not raise).
GetUserById(id, ok) == MakeRequestGet(users, id, ok)
GetPositionById(id, ok) == MakeRequestGet(positions, id, ok)

\* Python truthiness of a payload: only the empty dict {} is falsy.
Truthy(p) == p.kind # "empty"
\* p["$id"], p["broker_account"], ...: present in a document, KeyError otherwise.
HasFields(p) == p.kind = "doc"

\* The ids of the User documents matching both equality queries.
UsersMatching(login, server) ==
    {i \in 1 .. Len(users) :
        /\ ~users[i].deleted
        /\ users[i].broker_account = login /\ users[i].server = server}

Min(S) == CHOOSE x \in S : \A y \in S : x <= y

\* Variant: the listing is read under a key the answer never has.
GetUserByBrokerAccountNoMatch(login, server, ok) == NoId

\* get_user_by_broker_account: documents[0] of the listing (limit 1), None when
\* the answer has no "documents" key (an error payload) or lists nothing.
GetUserByBrokerAccount(login, server, ok) ==
    IF ok /\ UsersMatching(login, server) # {}
    THEN Min(UsersMatching(login, server))
    ELSE NoId

---------------------------------------------------------------------------
(* Trade facade: the session cache *)

\* Variant: without a cache entry the facade falls back to the connection
\* object opened last.
FacadeConnectionFallback(login) ==
    IF login \in DOMAIN accounts THEN accounts[login].connection
    ELSE Len(connections)

\* Variant: the facade takes the connection object opened last, not the cached one.
FacadeConnectionNewest(login) ==
    IF login \in DOMAIN accounts THEN Len(connections) ELSE NoConn

\* "if login not in self.accounts: raise": NoConn stands for the raise,
\* otherwise self.accounts[login]['connection'].
FacadeConnection(login) ==
    IF login \in DOMAIN accounts THEN accounts[login].connection ELSE NoConn

\* self.accounts[login] = {'account': account, 'connection': connection}
CacheSession(login, account, connection) ==
    [l \in DOMAIN accounts \cup {login} |->
        IF l = login THEN [account |-> account, connection |-> connection]
        ELSE accounts[l]]

---------------------------------------------------------------------------
(* Requests *)

IdleReq ==
    [pc |-> "idle", kind |-> "none", login |-> "", server |-> "",
     user_id |-> NoId, position_id |-> NoId, param |-> "",
     uid |-> NoId, account |-> NoId, conn |-> NoConn, balance |-> 0,
     status |-> 0, err |-> "", trace |-> <<>>,
     lookup |-> "", facade |-> FALSE, cached |-> FALSE,
     cached_conn |-> NoConn, after_connect |-> FALSE,
     user_existed |-> FALSE, pos_existed |-> FALSE,
     result |-> NoResult, order |-> NoId,
     password |-> 0, sent |-> 0, pos_status |-> ""]

InFlight(r) == reqs[r].pc \notin {"idle", "done"}

\* The status the client sees.  connect_broker, get_account_info, place_trade,
\* get_positions and close_position wrap their body in "except Exception" and
\* re-raise HTTPException(500), whatever was raised inside (an HTTPException
\* included); get_user has no such wrapper, so http_exception_handler answers an
\* HTTPException with its own status code and general_exception_handler answers
\* anything else with 500.
HandlerStatus(kind, raised) ==
    IF kind = "user"
    THEN (IF raised = NotHttp THEN 500 ELSE raised)
    ELSE 500

\* A handler ends: an answer with status 200, or a raise answered as above.
Respond(r, rec, trace) ==
    [rec EXCEPT !.pc = "done", !.status = 200, !.trace = trace]
Raise(r, rec, raised, err, trace) ==
    [rec EXCEPT !.pc = "done", !.status = HandlerStatus(rec.kind, raised),
                !.err = err, !.trace = trace]

\* collections_config, with the first attribute keys of each collection.
collections_config ==
    << [id |-> "users",
        attributes |-> <<"broker_account", "encrypted_password", "iv", "auth_tag">>],
       [id |-> "positions",
        attributes |-> <<"user_id", "symbol", "type", "volume">>],
       [id |-> "orders",
        attributes |-> <<"user_id", "symbol", "type", "volume">>],
       [id |-> "news",
        attributes |-> <<"title", "content", "source", "category">>] >>

Config(c) ==
    [id |-> collections_config[c].id,
     attributes |-> SubSeq(collections_config[c].attributes, 1, MaxAttributes)]
CollectionIds == {Config(c).id : c \in 1 .. MaxCollections}
AttributeKeys(c, n) == {Config(c).attributes[i] : i \in 1 .. n}

\* The schema of the store: whether the database exists and, per collection,
\* whether it exists and which attributes it has.
NoCollection == [exists |-> FALSE, attributes |-> {}]
EmptySchema == [db |-> FALSE, collections |-> [id \in CollectionIds |-> NoCollection]]
ConfiguredSchema ==
    [db |-> TRUE,
     collections |-> [id \in CollectionIds |->
        [exists |-> TRUE,
         attributes |-> UNION {AttributeKeys(c, MaxAttributes) :
                                c \in {k \in 1 .. MaxCollections : Config(k).id = id}}]]]

\* No gateway operation issued on its own, no provisioning run, no cipher
\* exchange: the values these hold while the request handlers run.
NoGatewayCall == [op |-> "none", ok |-> TRUE, returned |-> Payload("none", NoId, {})]
NoProvision ==
    [pc |-> "none", run |-> 0, c |-> 0, a |-> 0, after_first |-> ConfiguredSchema,
     duplicates |-> {}, creates |-> 0, list_failed |-> FALSE,
     create_failed |-> FALSE, faults |-> 0, raised |-> FALSE]
\* A base64 string: the bytes it decodes to and its form.  "canonical" is
\* what b64encode writes; "lenient" is another string b64decode reads as the
\* same bytes (set trailing bits, characters outside the alphabet, which the
\* default validate=False discards); "invalid" is one it rejects.
B64(data, form) == [data |-> data, form |-> form]
B64Forms == {"canonical", "lenient", "invalid"}
NoTriple == [encrypted |-> B64(0, "canonical"), iv |-> B64(0, "canonical"),
             auth_tag |-> B64(0, "canonical")]
NoPlaintext == [raised |-> FALSE, plaintext |-> Absent]
NoCipher ==
    [pc |-> "none", password |-> 0, key |-> 0, stored |-> NoTriple,
     given |-> NoTriple, given_key |-> 0, altered |-> "none",
     result |-> NoPlaintext]
\* An empty News collection and no GET /api/news answered yet.
NoNewsRequest ==
    [category |-> "", list_ok |-> TRUE, before |-> <<>>, listed |-> <<>>,
     creates |-> 0, answered |-> <<>>, status |-> 0]
NoNews == [documents |-> <<>>, last |-> NoNewsRequest]

---------------------------------------------------------------------------
(* Credential cipher: the functions encrypt_password and decrypt_password *)

Passwords == 0 .. MaxPassword
Modulus == MaxPassword + 1
Keys == {1, 2}          \* ENCRYPTION_KEY of this process, and another one
IVs == {0, 1}           \* os.urandom(16)

\* AES-GCM: the ciphertext is the plaintext combined with a key stream that
\* key and IV determine; the tag is a MAC over key, IV and ciphertext, taken
\* as collision-free.
Keystream(key, iv) == 1 + ((3 * key + 5 * iv) % MaxPassword)
Mac(key, iv, ciphertext) ==
    (key * (1 + Cardinality(IVs)) + iv) * Modulus + ciphertext
Tags == 0 .. Mac(2, 1, MaxPassword)

base64_b64encode(bytes) == B64(bytes, "canonical")
Decodable(str) == str.form # "invalid"
base64_b64decode(str) == str.data

encrypt_password(password, iv, key) ==
    LET ciphertext == (password + Keystream(key, iv)) % Modulus IN
    [encrypted |-> base64_b64encode(ciphertext),
     iv |-> base64_b64encode(iv),
     auth_tag |-> base64_b64encode(Mac(key, iv, ciphertext))]

\* decrypt_password: a raise for a string that does not decode and for a tag
\* that does not verify (InvalidTag at finalize), else the plaintext.
decrypt_password(encrypted, iv, auth_tag, key) ==
    IF ~(Decodable(encrypted) /\ Decodable(iv) /\ Decodable(auth_tag))
    THEN [raised |-> TRUE, plaintext |-> Absent]
    ELSE LET ciphertext == base64_b64decode(encrypted)
             iv_bytes == base64_b64decode(iv)
             tag == base64_b64decode(auth_tag)
         IN IF tag # Mac(key, iv_bytes, ciphertext)
            THEN [raised |-> TRUE, plaintext |-> Absent]
            ELSE [raised |-> FALSE,
                  plaintext |-> (ciphertext + Modulus
                                 - Keystream(key, iv_bytes)) % Modulus]

\* ENCRYPTION_KEY: the key of this process.
ENCRYPTION_KEY == 1
\* The IV of the encryptions the handlers make; the cipher on its own is
\* exercised under every IV.
HandlerIV == 1
\* The passwords a connect request supplies, and the password the broker
\* holds for every account.
SuppliedPasswords == {1, 2}
AccountPassword == 1

---------------------------------------------------------------------------
(* Initial state: a fresh process, with or without METAAPI_TOKEN, against an
   empty store and an empty account registry *)

StartOfProcess ==
    /\ configured \in BOOLEAN
    /\ users = <<>>
    /\ positions = <<>>
    /\ accounts = <<>>
    /\ registry = <<>>
    /\ deployed = {}
    /\ connections = <<>>
    /\ orders = 0
    /\ reqs = [r \in Req |-> IdleReq]
    /\ arrivals = 0
    /\ faults = 0
    /\ overlapped = FALSE
    /\ connected = {}

Init ==
    /\ StartOfProcess
    /\ gateway = NoGatewayCall
    /\ schema = ConfiguredSchema
    /\ provision = NoProvision
    /\ cipher = NoCipher
    /\ news = NoNews

\* A request arrives and its handler starts at once: the event loop runs it up
\* to its first await.  The answer of a finished handler is sent before any
\* other handler runs on (Reply).
NoneDone == \A q \in Req : reqs[q].pc # "done"

CanStart(r) ==
    /\ NoneDone
    /\ reqs[r].pc = "idle"
    /\ \A q \in Req : q < r => reqs[q].pc # "idle"    \* the first free slot
    /\ arrivals < MaxArrivals

Started(kind, login, server, user_id, position_id, param) ==
    [IdleReq EXCEPT !.pc = "new", !.kind = kind, !.login = login,
        !.server = server, !.user_id = user_id, !.position_id = position_id,
        !.param = param,
        !.user_existed = (user_id \in 1 .. Len(users)),
        !.pos_existed = (position_id \in 1 .. Len(positions)),
        !.pos_status = IF position_id \in 1 .. Len(positions)
                       THEN positions[position_id].status ELSE ""]

Counted(r) ==
    /\ arrivals' = arrivals + 1
    /\ overlapped' = (overlapped \/ \E q \in Req \ {r} : InFlight(q))

\* The calls of a step that fail, counted against the fault budget.
Cost(ok) == IF ok THEN 0 ELSE 1
Faulty(n) == faults + n <= MaxFaults /\ faults' = faults + n

Reply(r) ==
    /\ reqs[r].pc = "done"
    /\ reqs' = [reqs EXCEPT ![r] = IdleReq]
    /\ UNCHANGED <<side, configured, users, positions, accounts, registry, deployed,
                   connections, orders, arrivals, faults, overlapped, connected>>

---------------------------------------------------------------------------
(* POST /api/users/connect: connect_broker up to its await of connect_account,
   which itself runs up to its await of the registry listing *)

\* connect_account is entered: what the cache held for the login at that moment.
EnterConnect(q) ==
    [q EXCEPT !.pc = "get_accounts",
              !.cached = (q.login \in DOMAIN accounts),
              !.cached_conn = IF q.login \in DOMAIN accounts
                              THEN accounts[q.login].connection ELSE NoConn]

\* user_data: the document carries the password as encrypt_password wrote it.
NewUser(login, server, encrypted, lookup) ==
    [broker_account |-> login, server |-> server, balance |-> 0,
     encrypted_password |-> encrypted.encrypted, iv |-> encrypted.iv,
     auth_tag |-> encrypted.auth_tag,
     lookup |-> lookup, deleted |-> FALSE]

\* The password connect_account is called with for an existing user: the
\* stored one as decrypt_password reads it, data.password when that raises.
DecryptedPassword(user, supplied) ==
    LET d == decrypt_password(user.encrypted_password, user.iv,
                              user.auth_tag, ENCRYPTION_KEY)
    IN IF d.raised THEN supplied ELSE d.plaintext

ConnectBroker(r) ==
    /\ CanStart(r)
    /\ Counted(r)
    /\ \E p \in Pairs, pw \in SuppliedPasswords :
       LET q == [Started("connect", p[1], p[2], NoId, NoId, "")
                    EXCEPT !.password = pw, !.sent = pw] IN
       IF ~configured
       THEN \* HTTPException(503), raised inside the try
            /\ reqs' = [reqs EXCEPT ![r] =
                    Raise(r, q, 503, "MetaAPI not configured", <<>>)]
            /\ UNCHANGED <<users, faults>>
       ELSE \E lookOk \in BOOLEAN, createOk \in BOOLEAN :
            Faulty(Cost(lookOk) + Cost(createOk)) /\
            LET existing == GetUserByBrokerAccount(q.login, q.server, lookOk)
                looked == IF ~lookOk THEN "error"
                          ELSE IF existing = NoId THEN "none" ELSE "found"
                t1 == <<Call("list_users", 0)>>
                t2 == Append(t1, Call("create_user", 0))
            IN
            IF existing # NoId
            THEN \* existing user: its id is reused
                 /\ createOk
                 /\ reqs' = [reqs EXCEPT ![r] =
                        [EnterConnect(q) EXCEPT !.uid = existing,
                                  !.sent = DecryptedPassword(users[existing], pw),
                                  !.lookup = looked, !.trace = t1]]
                 /\ UNCHANGED users
            ELSE IF createOk
            THEN \* create_user answers the new document
                 /\ users' = Append(users,
                        NewUser(q.login, q.server,
                                encrypt_password(pw, HandlerIV, ENCRYPTION_KEY), looked))
                 /\ reqs' = [reqs EXCEPT ![r] =
                        [EnterConnect(q) EXCEPT !.uid = Len(users) + 1,
                                  !.lookup = looked, !.trace = t2]]
            ELSE \* create_user answers {"error": ...}: result["$id"] is a KeyError
                 /\ reqs' = [reqs EXCEPT ![r] =
                        Raise(r, [q EXCEPT !.lookup = looked], NotHttp,
                              "KeyError", t2)]
                 /\ UNCHANGED users
    /\ UNCHANGED <<side, configured, positions, accounts, registry, deployed,
                   connections, orders, connected>>

(* connect_account, one action per awaited call *)

AtAwait(r, pc) == NoneDone /\ reqs[r].pc = pc

Advance(r, pc, on) ==
    [reqs[r] EXCEPT !.pc = pc,
                    !.trace = Append(reqs[r].trace, Call(reqs[r].pc, on))]

\* Variant: the registry account is matched by login alone.
ExistingAccountByLogin(login, server) ==
    LET m == {i \in 1 .. Len(registry) : registry[i].login = login}
    IN IF m = {} THEN NoId ELSE Min(m)

\* The first registry account with the requested login and server, if any.
ExistingAccount(login, server) ==
    LET m == {i \in 1 .. Len(registry) :
                registry[i].login = login /\ registry[i].server = server}
    IN IF m = {} THEN NoId ELSE Min(m)

GetAccounts(r) ==
    /\ AtAwait(r, "get_accounts")
    /\ LET q == reqs[r]
           found == ExistingAccount(q.login, q.server)
       IN reqs' = [reqs EXCEPT ![r] =
            IF found # NoId
            THEN [Advance(r, "deploy", 0) EXCEPT !.account = found]
            ELSE Advance(r, "create_account", 0)]
    /\ UNCHANGED <<side, configured, users, positions, accounts, registry, deployed,
                   connections, orders, arrivals, faults, overlapped, connected>>

\* create_account with the login, the server and the password handed to
\* connect_account: the trading backend registers the account when the
\* password is the account's and rejects the call (a raise) when it is not.
CreateAccount(r) ==
    /\ AtAwait(r, "create_account")
    /\ IF reqs[r].sent = AccountPassword
       THEN /\ registry' = Append(registry,
                    [login |-> reqs[r].login, server |-> reqs[r].server])
            /\ reqs' = [reqs EXCEPT ![r] =
                    [Advance(r, "deploy", 0) EXCEPT !.account = Len(registry) + 1]]
       ELSE /\ registry' = registry
            /\ reqs' = [reqs EXCEPT ![r] =
                    Raise(r, reqs[r], NotHttp, "create_account",
                          Append(reqs[r].trace, Call("create_account", 0)))]
    /\ UNCHANGED <<side, configured, users, positions, accounts, deployed,
                   connections, orders, arrivals, faults, overlapped, connected>>

\* Variant: the handle is cached as soon as the account is deployed.
DeployCachesEarly(r) ==
    /\ AtAwait(r, "deploy")
    /\ deployed' = deployed \cup {reqs[r].account}
    /\ accounts' = CacheSession(reqs[r].login, reqs[r].account, NoConn)
    /\ reqs' = [reqs EXCEPT ![r] = Advance(r, "wait_deployed", reqs[r].account)]
    /\ UNCHANGED <<side, configured, users, positions, registry,
                   connections, orders, arrivals, faults, overlapped, connected>>

Deploy(r) ==
    /\ AtAwait(r, "deploy")
    /\ deployed' = deployed \cup {reqs[r].account}
    /\ reqs' = [reqs EXCEPT ![r] = Advance(r, "wait_deployed", reqs[r].account)]
    /\ UNCHANGED <<side, configured, users, positions, accounts, registry,
                   connections, orders, arrivals, faults, overlapped, connected>>

WaitDeployed(r) ==
    /\ AtAwait(r, "wait_deployed")
    /\ reqs' = [reqs EXCEPT ![r] = Advance(r, "wait_connected", reqs[r].account)]
    /\ UNCHANGED <<side, configured, users, positions, accounts, registry, deployed,
                   connections, orders, arrivals, faults, overlapped, connected>>

\* Variant: a cache hit. With a cached session for the login the cached
\* connection is taken and only the account information is fetched.
WaitConnectedCacheHit(r) ==
    /\ AtAwait(r, "wait_connected")
    /\ IF reqs[r].login \in DOMAIN accounts
       THEN /\ connections' = connections
            /\ reqs' = [reqs EXCEPT ![r] =
                    [Advance(r, "get_account_information", reqs[r].account)
                        EXCEPT !.conn = accounts[reqs[r].login].connection]]
       ELSE /\ connections' = Append(connections,
                    [account |-> reqs[r].account, state |-> "created"])
            /\ reqs' = [reqs EXCEPT ![r] =
                    [Advance(r, "connect", reqs[r].account)
                        EXCEPT !.conn = Len(connections) + 1]]
    /\ UNCHANGED <<side, configured, users, positions, accounts, registry, deployed,
                   orders, arrivals, faults, overlapped, connected>>

\* wait_connected returns; account.get_rpc_connection() makes a new connection
\* object, and connection.connect() is awaited on it.
WaitConnected(r) ==
    /\ AtAwait(r, "wait_connected")
    /\ connections' = Append(connections,
            [account |-> reqs[r].account, state |-> "created"])
    /\ reqs' = [reqs EXCEPT ![r] =
            [Advance(r, "connect", reqs[r].account)
                EXCEPT !.conn = Len(connections) + 1]]
    /\ UNCHANGED <<side, configured, users, positions, accounts, registry, deployed,
                   orders, arrivals, faults, overlapped, connected>>

RpcConnect(r) ==
    /\ AtAwait(r, "connect")
    /\ connections' = [connections EXCEPT ![reqs[r].conn].state = "connected"]
    /\ reqs' = [reqs EXCEPT ![r] = Advance(r, "wait_synchronized", reqs[r].conn)]
    /\ UNCHANGED <<side, configured, users, positions, accounts, registry, deployed,
                   orders, arrivals, faults, overlapped, connected>>

WaitSynchronized(r) ==
    /\ AtAwait(r, "wait_synchronized")
    /\ connections' = [connections EXCEPT ![reqs[r].conn].state = "synchronized"]
    /\ reqs' = [reqs EXCEPT ![r] =
            Advance(r, "get_account_information", reqs[r].conn)]
    /\ UNCHANGED <<side, configured, users, positions, accounts, registry, deployed,
                   orders, arrivals, faults, overlapped, connected>>

\* update_user: a PATCH; its answer, error payload included, is ignored.
UpdateUser(id, balance, ok) ==
    IF ok /\ Exists(users, id)
    THEN [users EXCEPT ![id].balance = balance]
    ELSE users

\* Variant: an existing cache entry is kept (setdefault), not overwritten.
GetAccountInformationKeepsFirst(r) ==
    /\ AtAwait(r, "get_account_information")
    /\ \E b \in Balances, updOk \in BOOLEAN :
        LET q == reqs[r] IN
        /\ Faulty(Cost(updOk))
        /\ accounts' = IF q.login \in DOMAIN accounts THEN accounts
                       ELSE CacheSession(q.login, q.account, q.conn)
        /\ connected' = connected \cup {q.login}
        /\ users' = UpdateUser(q.uid, b, updOk)
        /\ reqs' = [reqs EXCEPT ![r] =
                Respond(r, [q EXCEPT !.balance = b],
                    q.trace \o <<Call("get_account_information", q.conn),
                                 Call("update_user", 0)>>)]
    /\ UNCHANGED <<side, configured, positions, registry, deployed, connections,
                   orders, arrivals, overlapped>>

\* The account information arrives: the handle pair is cached, connect_account
\* returns, connect_broker stores the balance and answers.
GetAccountInformation(r) ==
    /\ AtAwait(r, "get_account_information")
    /\ \E b \in Balances, updOk \in BOOLEAN :
        LET q == reqs[r] IN
        /\ Faulty(Cost(updOk))
        /\ accounts' = CacheSession(q.login, q.account, q.conn)
        /\ connected' = connected \cup {q.login}
        /\ users' = UpdateUser(q.uid, b, updOk)
        /\ reqs' = [reqs EXCEPT ![r] =
                Respond(r, [q EXCEPT !.balance = b],
                    q.trace \o <<Call("get_account_information", q.conn),
                                 Call("update_user", 0)>>)]
    /\ UNCHANGED <<side, configured, positions, registry, deployed, connections,
                   orders, arrivals, overlapped>>

\* Variant: a failed connect evicts the login's cache entry.
ConnectFailsEvicts(r) ==
    /\ NoneDone
    /\ Faulty(1)
    /\ reqs[r].kind = "connect" /\ reqs[r].pc \in ConnectAwaits
    /\ reqs' = [reqs EXCEPT ![r] =
            Raise(r, reqs[r], NotHttp, reqs[r].pc,
                  Append(reqs[r].trace, Call(reqs[r].pc, 0)))]
    /\ accounts' = [l \in DOMAIN accounts \ {reqs[r].login} |-> accounts[l]]
    /\ UNCHANGED <<side, configured, users, positions, registry, deployed,
                   connections, orders, arrivals, overlapped, connected>>

\* Any awaited call of connect_account raises: "except Exception" re-raises
\* Exception("MetaAPI connection failed: ..."), connect_broker answers 500.
ConnectFails(r) ==
    /\ NoneDone
    /\ Faulty(1)
    /\ reqs[r].kind = "connect" /\ reqs[r].pc \in ConnectAwaits
    /\ reqs' = [reqs EXCEPT ![r] =
            Raise(r, reqs[r], NotHttp, reqs[r].pc,
                  Append(reqs[r].trace,
                         Call(reqs[r].pc,
                              IF reqs[r].pc \in ConnectionCalls THEN reqs[r].conn
                              ELSE IF reqs[r].pc \in AccountCalls
                                   THEN reqs[r].account ELSE 0)))]
    /\ UNCHANGED <<side, configured, users, positions, accounts, registry, deployed,
                   connections, orders, arrivals, overlapped, connected>>

---------------------------------------------------------------------------
(* GET /api/users/{user_id}: get_user, which awaits nothing *)

GetUser(r) ==
    /\ CanStart(r)
    /\ Counted(r)
    /\ \E u \in DocIds, getOk \in BOOLEAN :
        Faulty(Cost(getOk)) /\
        LET q == Started("user", "", "", u, NoId, "")
            user == GetUserById(q.user_id, getOk)
            t1 == <<Call("get_user", 0)>>
        IN reqs' = [reqs EXCEPT ![r] =
            IF ~Truthy(user)
            THEN Raise(r, q, 404, "User not found", t1)
            ELSE IF ~HasFields(user)
            THEN Raise(r, q, NotHttp, "KeyError", t1)      \* user["$id"]
            ELSE Respond(r, [q EXCEPT !.uid = user.id,
                                      !.balance = users[user.id].balance], t1)]
    /\ UNCHANGED <<side, configured, users, positions, accounts, registry, deployed,
                   connections, orders, connected>>

---------------------------------------------------------------------------
(* GET /api/users/{user_id}/account: get_account_info *)

\* The facade is entered for login: what the cache held at that moment.
EnterFacade(q, login) ==
    [q EXCEPT !.login = login,
              !.facade = TRUE,
              !.after_connect = (login \in connected),
              !.cached = (login \in DOMAIN accounts),
              !.cached_conn = IF login \in DOMAIN accounts
                              THEN accounts[login].connection ELSE NoConn]

GetAccountInfo(r) ==
    /\ CanStart(r)
    /\ Counted(r)
    /\ \E u \in DocIds, getOk \in BOOLEAN :
        Faulty(Cost(getOk)) /\
        LET q == Started("account", "", "", u, NoId, "")
            user == GetUserById(q.user_id, getOk)
            t1 == <<Call("get_user", 0)>>
        IN reqs' = [reqs EXCEPT ![r] =
            IF ~Truthy(user)
            THEN Raise(r, q, 404, "User not found", t1)
            ELSE IF ~configured
            THEN Raise(r, q, 503, "MetaAPI not configured", t1)
            ELSE IF ~HasFields(user)
            THEN \* user["broker_account"] is a KeyError in the inner try and
                 \* again in the fallback, which the outer except answers
                 Raise(r, q, NotHttp, "KeyError", t1)
            ELSE LET login == users[user.id].broker_account
                     f == [EnterFacade(q, login) EXCEPT
                              !.uid = user.id,
                              !.balance = users[user.id].balance]
                 IN IF FacadeConnection(login) = NoConn
                    THEN \* the facade raises; the fallback answers the
                         \* balance read from the User document
                         Respond(r, [f EXCEPT !.err = "Account not connected"], t1)
                    ELSE [f EXCEPT !.pc = "account_info",
                                   !.conn = FacadeConnection(login),
                                   !.trace = t1]]
    /\ UNCHANGED <<side, configured, users, positions, accounts, registry, deployed,
                   connections, orders, connected>>

\* Variant: a failed live call is answered as an error, with no fallback.
AccountInfoReturnRaises(r) ==
    /\ AtAwait(r, "account_info")
    /\ \E ok \in BOOLEAN, b \in Balances, updOk \in BOOLEAN :
        Faulty(Cost(ok) + Cost(updOk)) /\
        LET q == reqs[r]
            t1 == Append(q.trace, Call("get_account_information", q.conn))
        IN IF ok
           THEN /\ users' = UpdateUser(q.user_id, b, updOk)
                /\ reqs' = [reqs EXCEPT ![r] =
                        Respond(r, [q EXCEPT !.balance = b],
                                Append(t1, Call("update_user", 0)))]
           ELSE /\ b = Min(Balances) /\ updOk
                /\ users' = users
                /\ reqs' = [reqs EXCEPT ![r] =
                        Raise(r, [q EXCEPT !.err = "get_account_information"],
                              NotHttp, "get_account_information", t1)]
    /\ UNCHANGED <<side, configured, positions, accounts, registry, deployed,
                   connections, orders, arrivals, overlapped, connected>>

\* The live call returns, or raises and the inner "except Exception" answers
\* the balance (and equity, which the code carries along with it everywhere)
\* read from the User document before the call.
AccountInfoReturn(r) ==
    /\ AtAwait(r, "account_info")
    /\ \E ok \in BOOLEAN, b \in Balances, updOk \in BOOLEAN :
        Faulty(Cost(ok) + Cost(updOk)) /\
        LET q == reqs[r]
            t1 == Append(q.trace, Call("get_account_information", q.conn))
        IN IF ok
           THEN /\ users' = UpdateUser(q.user_id, b, updOk)
                /\ reqs' = [reqs EXCEPT ![r] =
                        Respond(r, [q EXCEPT !.balance = b],
                                Append(t1, Call("update_user", 0)))]
           ELSE \* the call raises: the fallback answers the balance read
                \* from the User document before the call
                /\ b = Min(Balances) /\ updOk
                /\ users' = users
                /\ reqs' = [reqs EXCEPT ![r] =
                        Respond(r, [q EXCEPT !.err = "get_account_information"],
                                t1)]
    /\ UNCHANGED <<side, configured, positions, accounts, registry, deployed,
                   connections, orders, arrivals, overlapped, connected>>

---------------------------------------------------------------------------
(* POST /api/trade: place_trade *)

\* str.lower on the trade types.
Lower(s) == IF s = "BUY" THEN "buy" ELSE s

\* The order call the facade issues for action_type:
\* if action_type.lower() == "buy" ... else ...
OrderCall(action_type) ==
    IF Lower(action_type) = "buy" THEN "create_market_buy_order"
    ELSE "create_market_sell_order"

PlaceTrade(r) ==
    /\ CanStart(r)
    /\ Counted(r)
    /\ \E u \in DocIds, tt \in TradeTypes, getOk \in BOOLEAN :
        Faulty(Cost(getOk)) /\ (~configured => getOk) /\
        LET q == Started("trade", "", "", u, NoId, tt)
            user == GetUserById(q.user_id, getOk)
            t1 == <<Call("get_user", 0)>>
        IN reqs' = [reqs EXCEPT ![r] =
            IF ~configured
            THEN Raise(r, q, 503, "MetaAPI not configured", <<>>)
            ELSE IF ~Truthy(user)
            THEN Raise(r, q, 404, "User not found", t1)
            ELSE IF ~HasFields(user)
            THEN Raise(r, q, NotHttp, "KeyError", t1)   \* user["broker_account"]
            ELSE LET login == users[user.id].broker_account
                     f == [EnterFacade(q, login) EXCEPT !.uid = user.id]
                 IN IF FacadeConnection(login) = NoConn
                    THEN Raise(r, f, NotHttp, "Account not connected", t1)
                    ELSE [f EXCEPT !.pc = "order",
                                   !.conn = FacadeConnection(login),
                                   !.trace = t1]]
    /\ UNCHANGED <<side, configured, users, positions, accounts, registry, deployed,
                   connections, orders, connected>>

\* result.get('openPrice', result.get('price', 0))
OpenPrice(result) ==
    IF result.openPrice # Absent THEN result.openPrice
    ELSE IF result.price # Absent THEN result.price
    ELSE 0

\* Variant: current_price is read from 'price' before 'openPrice'.
NewPositionLastPrice(user_id, result, broker_position_id) ==
    [user_id |-> user_id, status |-> "open",
     open_price |-> OpenPrice(result),
     current_price |-> IF result.price # Absent THEN result.price
                       ELSE OpenPrice(result),
     profit |-> 0,
     broker_position_id |-> broker_position_id, closed_at |-> FALSE,
     deleted |-> FALSE]

\* position_data: closed_at is not among its keys (FALSE: unset).
NewPosition(user_id, result, broker_position_id) ==
    [user_id |-> user_id, status |-> "open",
     open_price |-> OpenPrice(result),
     current_price |-> OpenPrice(result),
     profit |-> 0,
     broker_position_id |-> broker_position_id, closed_at |-> FALSE,
     deleted |-> FALSE]

\* Variant: the answer of create_position is not read; success is answered.
OrderReturnIgnoresCreate(r) ==
    /\ AtAwait(r, "order")
    /\ \E ok \in BOOLEAN, createOk \in BOOLEAN, res \in Results :
        Faulty(Cost(ok) + Cost(createOk)) /\ (~ok => res = NoResult) /\
        LET q == [reqs[r] EXCEPT !.result = res,
                                 !.order = IF ok THEN orders + 1 ELSE NoId]
            t1 == Append(q.trace, Call(OrderCall(q.param), q.conn))
            t2 == Append(t1, Call("create_position", 0))
        IN IF ~ok
           THEN /\ createOk
                /\ reqs' = [reqs EXCEPT ![r] =
                        Raise(r, q, NotHttp, OrderCall(q.param), t1)]
                /\ UNCHANGED <<positions, orders>>
           ELSE /\ orders' = orders + 1
                /\ positions' = IF createOk
                                 THEN Append(positions,
                                        NewPosition(q.user_id, q.result, orders + 1))
                                 ELSE positions
                /\ reqs' = [reqs EXCEPT ![r] =
                        Respond(r, [q EXCEPT !.position_id = Len(positions) + 1],
                                t2)]
    /\ UNCHANGED <<side, configured, users, accounts, registry, deployed,
                   connections, arrivals, overlapped, connected>>

\* The order call returns: on success the Position document is created and
\* position_result["$id"] read from the answer.
OrderReturn(r) ==
    /\ AtAwait(r, "order")
    /\ \E ok \in BOOLEAN, createOk \in BOOLEAN, res \in Results :
        Faulty(Cost(ok) + Cost(createOk)) /\ (~ok => res = NoResult) /\
        LET q == [reqs[r] EXCEPT !.result = res,
                                 !.order = IF ok THEN orders + 1 ELSE NoId]
            t1 == Append(q.trace, Call(OrderCall(q.param), q.conn))
            t2 == Append(t1, Call("create_position", 0))
        IN IF ~ok
           THEN /\ createOk
                /\ reqs' = [reqs EXCEPT ![r] =
                        Raise(r, q, NotHttp, OrderCall(q.param), t1)]
                /\ UNCHANGED <<positions, orders>>
           ELSE /\ orders' = orders + 1
                /\ IF createOk
                   THEN /\ positions' = Append(positions,
                                NewPosition(q.user_id, q.result, orders + 1))
                        /\ reqs' = [reqs EXCEPT ![r] =
                                Respond(r, [q EXCEPT
                                    !.position_id = Len(positions) + 1], t2)]
                   ELSE /\ reqs' = [reqs EXCEPT ![r] =
                                Raise(r, q, NotHttp, "KeyError", t2)]
                        /\ UNCHANGED positions
    /\ UNCHANGED <<side, configured, users, accounts, registry, deployed,
                   connections, arrivals, overlapped, connected>>

---------------------------------------------------------------------------
(* GET /api/users/{user_id}/positions: get_positions *)

GetPositions(r) ==
    /\ CanStart(r)
    /\ Counted(r)
    /\ \E u \in DocIds, sp \in StatusParams, getOk \in BOOLEAN :
        Faulty(Cost(getOk)) /\ (~(configured /\ sp = "open") => getOk) /\
        LET q == Started("positions", "", "", u, NoId, sp)
            user == GetUserById(q.user_id, getOk)
            t1 == <<Call("list_positions", 0)>>
            t2 == Append(t1, Call("get_user", 0))
        IN reqs' = [reqs EXCEPT ![r] =
            IF ~(configured /\ q.param = "open")
            THEN Respond(r, q, t1)
            ELSE IF ~Truthy(user)
            THEN Respond(r, q, t2)
            ELSE IF ~HasFields(user)
            THEN \* user["broker_account"]: a KeyError the sync block swallows
                 Respond(r, [q EXCEPT !.err = "KeyError"], t2)
            ELSE LET login == users[user.id].broker_account
                     f == [EnterFacade(q, login) EXCEPT !.uid = user.id]
                 IN IF FacadeConnection(login) = NoConn
                    THEN Respond(r, [f EXCEPT !.err = "Account not connected"], t2)
                    ELSE [f EXCEPT !.pc = "get_positions",
                                   !.conn = FacadeConnection(login),
                                   !.trace = t2]]
    /\ UNCHANGED <<side, configured, users, positions, accounts, registry, deployed,
                   connections, orders, connected>>

\* Variant: a failed listing at the broker drops the login's cached session.
PositionsReturnEvicts(r) ==
    /\ AtAwait(r, "get_positions")
    /\ \E ok \in BOOLEAN :
        Faulty(Cost(ok)) /\
        LET q == reqs[r]
            t1 == Append(q.trace, Call("get_positions", q.conn))
        IN /\ reqs' = [reqs EXCEPT ![r] =
                Respond(r, [q EXCEPT !.err = IF ok THEN "" ELSE "get_positions"], t1)]
           /\ accounts' = IF ok THEN accounts
                          ELSE [l \in DOMAIN accounts \ {q.login} |-> accounts[l]]
    /\ UNCHANGED <<side, configured, users, positions, registry, deployed,
                   connections, orders, arrivals, overlapped, connected>>

\* The broker's listing arrives, or the call raises: either way the positions
\* read from the store are answered.
PositionsReturn(r) ==
    /\ AtAwait(r, "get_positions")
    /\ \E ok \in BOOLEAN :
        Faulty(Cost(ok)) /\
        LET q == reqs[r]
            t1 == Append(q.trace, Call("get_positions", q.conn))
        IN reqs' = [reqs EXCEPT ![r] =
            Respond(r, [q EXCEPT !.err = IF ok THEN "" ELSE "get_positions"], t1)]
    /\ UNCHANGED <<side, configured, users, positions, accounts, registry, deployed,
                   connections, orders, arrivals, overlapped, connected>>

---------------------------------------------------------------------------
(* POST /api/positions/close: close_position *)

ClosePosition(r) ==
    /\ CanStart(r)
    /\ Counted(r)
    /\ \E u \in DocIds, pid \in DocIds, posOk \in BOOLEAN, getOk \in BOOLEAN :
        Faulty(Cost(posOk) + Cost(getOk)) /\ (~configured => posOk /\ getOk) /\
        LET q == Started("close", "", "", u, pid, "")
            position == GetPositionById(q.position_id, posOk)
            user == GetUserById(q.user_id, getOk)
            t1 == <<Call("get_position", 0)>>
            t2 == Append(t1, Call("get_user", 0))
        IN reqs' = [reqs EXCEPT ![r] =
            IF ~configured
            THEN Raise(r, q, 503, "MetaAPI not configured", <<>>)
            ELSE IF ~Truthy(position)
            THEN Raise(r, q, 404, "Position not found", t1)
            ELSE IF ~Truthy(user)
            THEN Raise(r, q, 404, "User not found", t2)
            ELSE IF ~HasFields(position)
            THEN Raise(r, q, NotHttp, "KeyError", t2)   \* position['$id']
            ELSE IF ~HasFields(user)
            THEN Raise(r, q, NotHttp, "KeyError", t2)   \* user["broker_account"]
            ELSE LET login == users[user.id].broker_account
                     f == [EnterFacade(q, login) EXCEPT !.uid = user.id]
                 IN IF FacadeConnection(login) = NoConn
                    THEN Raise(r, f, NotHttp, "Account not connected", t2)
                    ELSE [f EXCEPT !.pc = "close_position",
                                   !.conn = FacadeConnection(login),
                                   !.trace = t2]]
    /\ UNCHANGED <<side, configured, users, positions, accounts, registry, deployed,
                   connections, orders, connected>>

\* Variant: the PATCH carries the status only.
UpdatePositionStatusOnly(id, ok) ==
    IF ok /\ Exists(positions, id)
    THEN [positions EXCEPT ![id].status = "closed"]
    ELSE positions

\* update_position: a PATCH; its answer, error payload included, is ignored.
UpdatePosition(id, ok) ==
    IF ok /\ Exists(positions, id)
    THEN [positions EXCEPT ![id].status = "closed", ![id].closed_at = TRUE]
    ELSE positions

CloseReturn(r) ==
    /\ AtAwait(r, "close_position")
    /\ \E ok \in BOOLEAN, updOk \in BOOLEAN :
        Faulty(Cost(ok) + Cost(updOk)) /\
        LET q == reqs[r]
            t1 == Append(q.trace, Call("close_position", q.conn))
        IN IF ~ok
           THEN /\ updOk
                /\ reqs' = [reqs EXCEPT ![r] =
                        Raise(r, q, NotHttp, "close_position", t1)]
                /\ UNCHANGED positions
           ELSE /\ positions' = UpdatePosition(q.position_id, updOk)
                /\ reqs' = [reqs EXCEPT ![r] =
                        Respond(r, q, Append(t1, Call("update_position", 0)))]
    /\ UNCHANGED <<side, configured, users, accounts, registry, deployed,
                   connections, orders, arrivals, overlapped, connected>>

---------------------------------------------------------------------------
(* The specification *)

Next ==
    \E r \in Req :
        \/ Reply(r)
        \/ ConnectBroker(r)
        \/ GetAccounts(r)
        \/ CreateAccount(r)
        \/ Deploy(r)
        \/ WaitDeployed(r)
        \/ WaitConnected(r)
        \/ RpcConnect(r)
        \/ WaitSynchronized(r)
        \/ GetAccountInformation(r)
        \/ ConnectFails(r)
        \/ GetUser(r)
        \/ GetAccountInfo(r)
        \/ AccountInfoReturn(r)
        \/ PlaceTrade(r)
        \/ OrderReturn(r)
        \/ GetPositions(r)
        \/ PositionsReturn(r)
        \/ ClosePosition(r)
        \/ CloseReturn(r)

Spec == Init /\ [][Next]_vars

---------------------------------------------------------------------------
(* The process restarted: the document store and the account registry hold
   what an earlier run left (two users with their registered accounts, an open
   position of the first user, its order executed), the session cache of the
   new process is empty *)

StoredUsers ==
    << NewUser("100200", "Demo-1",
               encrypt_password(AccountPassword, HandlerIV, ENCRYPTION_KEY), "none"),
       NewUser("100300", "Demo-1",
               encrypt_password(AccountPassword, HandlerIV, ENCRYPTION_KEY), "none") >>

StoredPositions == << NewPosition(1, [openPrice |-> 7, price |-> 9], 1) >>

RestartInit ==
    /\ configured = TRUE
    /\ users = StoredUsers
    /\ positions = StoredPositions
    /\ accounts = <<>>
    /\ registry = << [login |-> "100200", server |-> "Demo-1"],
                     [login |-> "100300", server |-> "Demo-1"] >>
    /\ deployed = {}
    /\ connections = <<>>
    /\ orders = Len(StoredPositions)
    /\ reqs = [r \in Req |-> IdleReq]
    /\ arrivals = 0
    /\ faults = 0
    /\ overlapped = FALSE
    /\ connected = {}
    /\ gateway = NoGatewayCall
    /\ schema = ConfiguredSchema
    /\ provision = NoProvision
    /\ cipher = NoCipher
    /\ news = NoNews

RestartSpec == RestartInit /\ [][Next]_vars

---------------------------------------------------------------------------
(* The gateway operations on their own: each action issues one operation of
   AppwriteClient against the store, with the exchange succeeding or failing
   (no response, or a 4xx/5xx response), and records what the operation
   handed back.  Orders and News are operated by the same code as Positions. *)

Called(op, ok, returned) == [op |-> op, ok |-> ok, returned |-> returned]

\* What create_user, update_user, delete_user and the Position operations
\* return: the payload of _make_request as it is.
CreateUserReturns(ok) ==
    MakeRequest("POST", ok, Payload("doc", Len(users) + 1, {}))
UpdateUserReturns(id, ok) ==
    MakeRequest("PATCH", ok /\ Exists(users, id), Payload("doc", id, {}))
DeleteUserReturns(id, ok) ==
    MakeRequest("DELETE", ok /\ Exists(users, id), Payload("empty", NoId, {}))
CreatePositionReturns(ok) ==
    MakeRequest("POST", ok, Payload("doc", Len(positions) + 1, {}))
UpdatePositionReturns(id, ok) ==
    MakeRequest("PATCH", ok /\ Exists(positions, id), Payload("doc", id, {}))
DeletePositionReturns(id, ok) ==
    MakeRequest("DELETE", ok /\ Exists(positions, id), Payload("empty", NoId, {}))

\* The Position documents matching the equality queries of get_positions
\* (status "" stands for None: no status query).
PositionsMatching(user_id, status) ==
    {i \in 1 .. Len(positions) :
        /\ ~positions[i].deleted
        /\ positions[i].user_id = user_id
        /\ status # "" => positions[i].status = status}

\* get_positions of the gateway: result.get("documents", []).
ListPositions(user_id, status, ok) ==
    LET result == MakeRequest("GET", ok,
                    Payload("documents", NoId, PositionsMatching(user_id, status)))
    IN IF result.kind = "raise" THEN result
       ELSE IF result.kind = "documents" THEN Payload("list", NoId, result.ids)
       ELSE Payload("list", NoId, {})

\* get_user_by_broker_account as a return value: a document or None.
LookupReturns(login, server, ok) ==
    IF GetUserByBrokerAccount(login, server, ok) = NoId
    THEN Payload("none", NoId, {})
    ELSE Payload("doc", GetUserByBrokerAccount(login, server, ok), {})

CreateUserCall ==
    /\ Len(users) < MaxDocs
    /\ \E p \in Pairs, ok \in BOOLEAN :
        /\ gateway' = Called("create_user", ok, CreateUserReturns(ok))
        /\ users' = IF ok THEN Append(users, NewUser(p[1], p[2],
                                        encrypt_password(AccountPassword, HandlerIV,
                                                         ENCRYPTION_KEY),
                                        "none"))
                     ELSE users
    /\ UNCHANGED <<positions, handlers, schema, provision, cipher, news>>

LookupCall ==
    /\ \E p \in Pairs, ok \in BOOLEAN :
        gateway' = Called("get_user_by_broker_account", ok,
                          LookupReturns(p[1], p[2], ok))
    /\ UNCHANGED <<main, schema, provision, cipher, news>>

GetUserByIdCall ==
    /\ \E id \in DocIds, ok \in BOOLEAN :
        gateway' = Called("get_user_by_id", ok /\ Exists(users, id),
                          GetUserById(id, ok))
    /\ UNCHANGED <<main, schema, provision, cipher, news>>

UpdateUserCall ==
    /\ \E id \in DocIds, b \in Balances, ok \in BOOLEAN :
        /\ gateway' = Called("update_user", ok /\ Exists(users, id),
                             UpdateUserReturns(id, ok))
        /\ users' = UpdateUser(id, b, ok)
    /\ UNCHANGED <<positions, handlers, schema, provision, cipher, news>>

DeleteUserCall ==
    /\ \E id \in DocIds, ok \in BOOLEAN :
        /\ gateway' = Called("delete_user", ok /\ Exists(users, id),
                             DeleteUserReturns(id, ok))
        /\ users' = IF ok /\ Exists(users, id)
                     THEN [users EXCEPT ![id].deleted = TRUE] ELSE users
    /\ UNCHANGED <<positions, handlers, schema, provision, cipher, news>>

CreatePositionCall ==
    /\ Len(positions) < MaxDocs
    /\ \E u \in DocIds, ok \in BOOLEAN :
        /\ gateway' = Called("create_position", ok, CreatePositionReturns(ok))
        /\ positions' = IF ok THEN Append(positions, NewPosition(u, NoResult, 0))
                         ELSE positions
    /\ UNCHANGED <<users, handlers, schema, provision, cipher, news>>

ListPositionsCall ==
    /\ \E u \in DocIds, st \in {"", "open", "closed"}, ok \in BOOLEAN :
        gateway' = Called("get_positions", ok, ListPositions(u, st, ok))
    /\ UNCHANGED <<main, schema, provision, cipher, news>>

GetPositionByIdCall ==
    /\ \E id \in DocIds, ok \in BOOLEAN :
        gateway' = Called("get_position_by_id", ok /\ Exists(positions, id),
                          GetPositionById(id, ok))
    /\ UNCHANGED <<main, schema, provision, cipher, news>>

UpdatePositionCall ==
    /\ \E id \in DocIds, ok \in BOOLEAN :
        /\ gateway' = Called("update_position", ok /\ Exists(positions, id),
                             UpdatePositionReturns(id, ok))
        /\ positions' = UpdatePosition(id, ok)
    /\ UNCHANGED <<users, handlers, schema, provision, cipher, news>>

DeletePositionCall ==
    /\ \E id \in DocIds, ok \in BOOLEAN :
        /\ gateway' = Called("delete_position", ok /\ Exists(positions, id),
                             DeletePositionReturns(id, ok))
        /\ positions' = IF ok /\ Exists(positions, id)
                         THEN [positions EXCEPT ![id].deleted = TRUE]
                         ELSE positions
    /\ UNCHANGED <<users, handlers, schema, provision, cipher, news>>

GatewayInit == Init /\ configured

GatewayNext ==
    \/ CreateUserCall
    \/ LookupCall
    \/ GetUserByIdCall
    \/ UpdateUserCall
    \/ DeleteUserCall
    \/ CreatePositionCall
    \/ ListPositionsCall
    \/ GetPositionByIdCall
    \/ UpdatePositionCall
    \/ DeletePositionCall

GatewaySpec == GatewayInit /\ [][GatewayNext]_vars

---------------------------------------------------------------------------
(* Schema provisioning: initialize_database, one action per store call *)

\* The schemas a run can find: nothing, or the database with each collection
\* absent or present with the attributes an interrupted run got to create.
CollectionStates(c) ==
    {NoCollection} \cup
    {[exists |-> TRUE, attributes |-> AttributeKeys(c, n)] : n \in 0 .. MaxAttributes}
InitialSchemas ==
    {EmptySchema} \cup
    {[db |-> TRUE, collections |-> f] :
        f \in {g \in [CollectionIds ->
                        UNION {CollectionStates(c) : c \in 1 .. MaxCollections}] :
                \A c \in 1 .. MaxCollections :
                    g[Config(c).id] \in CollectionStates(c)}}

\* GET /databases and GET /databases/{id}/collections as _make_request
\* answers them; the second is a 404 when the database does not exist.
DatabasesListing(ok) ==
    MakeRequest("GET", ok,
        Payload("databases", NoId, IF schema.db THEN {"kanairy_db"} ELSE {}))
CollectionsListing(ok) ==
    MakeRequest("GET", ok /\ schema.db,
        Payload("collections", NoId,
                {id \in CollectionIds : schema.collections[id].exists}))

\* "databases" in databases and some db has our $id.
DbExists(databases) ==
    databases.kind = "databases" /\ "kanairy_db" \in databases.ids

\* Variant: the listing is never found to hold the collection.
CollectionExistsNever(collections, id) == FALSE

\* "collections" in collections and some col has the configured $id.
CollectionExists(collections, id) ==
    collections.kind = "collections" /\ id \in collections.ids

\* A provisioning fault: a store call that fails by itself.
ProvisionFault(ok) ==
    /\ ok \/ provision.faults < MaxFaults
    /\ provision.pc \notin {"none", "done"}

\* The run is through its last collection: the second run starts, or the
\* constructor goes on.
EndRun(pv, sch) ==
    IF pv.run = 1
    THEN [pv EXCEPT !.run = 2, !.pc = "list_databases", !.c = 1, !.a = 1,
                    !.after_first = sch]
    ELSE [pv EXCEPT !.pc = "done"]

NextCollection(pv, sch) ==
    IF pv.c < MaxCollections
    THEN [pv EXCEPT !.pc = "list_collections", !.c = pv.c + 1, !.a = 1]
    ELSE EndRun(pv, sch)

\* A raise inside the try block is swallowed by "except Exception": the run
\* ends there and nothing reaches the caller.
Swallow(payload, pv, sch, next) ==
    IF payload.kind = "raise" THEN EndRun(pv, sch) ELSE next

Counting(pv, ok, created, target, existed, failed_listing, failed_create) ==
    [pv EXCEPT
        !.faults = pv.faults + Cost(ok),
        !.creates = IF created /\ pv.run = 2 THEN pv.creates + 1 ELSE pv.creates,
        !.duplicates = IF created /\ pv.run = 2 /\ existed
                       THEN pv.duplicates \cup {target} ELSE pv.duplicates,
        !.list_failed = pv.list_failed \/ (pv.run = 2 /\ failed_listing),
        !.create_failed = pv.create_failed \/ (pv.run = 1 /\ failed_create)]

ListDatabases ==
    /\ provision.pc = "list_databases"
    /\ \E ok \in BOOLEAN :
        /\ ProvisionFault(ok)
        /\ LET databases == DatabasesListing(ok)
               pv == Counting(provision, ok, FALSE, <<>>, FALSE,
                              databases.kind = "error", FALSE)
           IN provision' = Swallow(databases, pv, schema,
                IF DbExists(databases)
                THEN [pv EXCEPT !.pc = "list_collections", !.c = 1, !.a = 1]
                ELSE [pv EXCEPT !.pc = "create_database"])
    /\ UNCHANGED <<main, gateway, schema, cipher, news>>

CreateDatabase ==
    /\ provision.pc = "create_database"
    /\ \E ok \in BOOLEAN :
        /\ ProvisionFault(ok)
        /\ LET done == ok /\ ~schema.db         \* else a 409, or no answer
               pv == Counting(provision, ok, TRUE, <<"kanairy_db">>, schema.db,
                              FALSE, ~done /\ ~schema.db)
           IN /\ schema' = IF done THEN [schema EXCEPT !.db = TRUE] ELSE schema
              /\ provision' = [pv EXCEPT !.pc = "list_collections",
                                          !.c = 1, !.a = 1]
    /\ UNCHANGED <<main, gateway, cipher, news>>

ListCollections ==
    /\ provision.pc = "list_collections"
    /\ \E ok \in BOOLEAN :
        /\ ProvisionFault(ok)
        /\ LET collections == CollectionsListing(ok)
               pv == Counting(provision, ok, FALSE, <<>>, FALSE,
                              collections.kind = "error", FALSE)
           IN provision' = Swallow(collections, pv, schema,
                IF CollectionExists(collections, Config(provision.c).id)
                THEN NextCollection(pv, schema)
                ELSE [pv EXCEPT !.pc = "create_collection"])
    /\ UNCHANGED <<main, gateway, schema, cipher, news>>

CreateCollection ==
    /\ provision.pc = "create_collection"
    /\ \E ok \in BOOLEAN :
        /\ ProvisionFault(ok)
        /\ LET id == Config(provision.c).id
               existed == schema.collections[id].exists
               done == ok /\ schema.db /\ ~existed
               pv == Counting(provision, ok, TRUE, <<id>>, existed,
                              FALSE, ~done /\ ~existed)
           IN /\ schema' = IF done
                            THEN [schema EXCEPT !.collections[id].exists = TRUE]
                            ELSE schema
              /\ provision' = [pv EXCEPT !.pc = "create_attribute", !.a = 1]
    /\ UNCHANGED <<main, gateway, cipher, news>>

CreateAttribute ==
    /\ provision.pc = "create_attribute"
    /\ \E ok \in BOOLEAN :
        /\ ProvisionFault(ok)
        /\ LET id == Config(provision.c).id
               key == Config(provision.c).attributes[provision.a]
               existed == key \in schema.collections[id].attributes
               done == ok /\ schema.collections[id].exists /\ ~existed
               pv == Counting(provision, ok, TRUE, <<id, key>>, existed,
                              FALSE, ~done /\ ~existed)
               sch == IF done
                      THEN [schema EXCEPT !.collections[id].attributes = @ \cup {key}]
                      ELSE schema
           IN /\ schema' = sch
              /\ provision' = IF provision.a < MaxAttributes
                               THEN [pv EXCEPT !.a = provision.a + 1]
                               ELSE NextCollection(pv, sch)
    /\ UNCHANGED <<main, gateway, cipher, news>>

\* initialize_database is run twice in a row against a store in any of the
\* initial schemas.
ProvisionInit ==
    /\ StartOfProcess /\ configured
    /\ gateway = NoGatewayCall
    /\ cipher = NoCipher
    /\ news = NoNews
    /\ schema \in InitialSchemas
    /\ provision = [NoProvision EXCEPT !.pc = "list_databases", !.run = 1,
                                       !.c = 1, !.a = 1]

ProvisionNext ==
    \/ ListDatabases
    \/ CreateDatabase
    \/ ListCollections
    \/ CreateCollection
    \/ CreateAttribute

ProvisionSpec == ProvisionInit /\ [][ProvisionNext]_vars

---------------------------------------------------------------------------
(* Credential cipher: encrypt_password and decrypt_password *)

\* A password is encrypted under the key of the process, with a fresh IV.
Encrypt ==
    /\ cipher.pc = "start"
    /\ \E password \in Passwords, iv \in IVs, key \in Keys :
        cipher' = [cipher EXCEPT
            !.pc = "encrypted", !.password = password, !.key = key,
            !.given_key = key,
            !.stored = encrypt_password(password, iv, key),
            !.given = encrypt_password(password, iv, key)]
    /\ UNCHANGED <<main, gateway, schema, provision, news>>

\* What is handed to decrypt_password later: the stored strings, or one of
\* them replaced by another string, or the same strings under another key.
Tamper ==
    /\ cipher.pc = "encrypted"
    /\ \/ cipher' = [cipher EXCEPT !.pc = "tampered"]
       \/ \E d \in 0 .. MaxPassword, f \in B64Forms :
            /\ B64(d, f) # cipher.stored.encrypted
            /\ cipher' = [cipher EXCEPT !.pc = "tampered",
                    !.altered = "encrypted", !.given.encrypted = B64(d, f)]
       \/ \E d \in Tags, f \in B64Forms :
            /\ B64(d, f) # cipher.stored.auth_tag
            /\ cipher' = [cipher EXCEPT !.pc = "tampered",
                    !.altered = "auth_tag", !.given.auth_tag = B64(d, f)]
       \/ \E d \in IVs, f \in B64Forms :
            /\ B64(d, f) # cipher.stored.iv
            /\ cipher' = [cipher EXCEPT !.pc = "tampered",
                    !.altered = "iv", !.given.iv = B64(d, f)]
       \/ \E k \in Keys \ {cipher.key} :
            cipher' = [cipher EXCEPT !.pc = "tampered",
                    !.altered = "key", !.given_key = k]
    /\ UNCHANGED <<main, gateway, schema, provision, news>>

Decrypt ==
    /\ cipher.pc = "tampered"
    /\ cipher' = [cipher EXCEPT !.pc = "decrypted",
            !.result = decrypt_password(cipher.given.encrypted, cipher.given.iv,
                                        cipher.given.auth_tag, cipher.given_key)]
    /\ UNCHANGED <<main, gateway, schema, provision, news>>

CipherInit ==
    /\ StartOfProcess /\ configured
    /\ gateway = NoGatewayCall
    /\ schema = ConfiguredSchema
    /\ provision = NoProvision
    /\ news = NoNews
    /\ cipher = [NoCipher EXCEPT !.pc = "start"]

CipherNext ==
    \/ Encrypt
    \/ Tamper
    \/ Decrypt

CipherSpec == CipherInit /\ [][CipherNext]_vars

---------------------------------------------------------------------------
(* GET /api/news: get_news, which awaits nothing, against a News collection
   that holds the articles written to it so far *)

\* The categories of the articles and of the category filter; "" is no filter
\* (category = None).
Categories == {"platform", "forex", "crypto"}
CategoryParams == Categories \cup {""}

\* sample_news: the categories of the two placeholder articles.
sample_news == <<"platform", "forex">>

\* Sequences over S of length at most n.
SeqUpTo(S, n) == UNION {[1 .. k -> S] : k \in 0 .. n}

\* The ids of documents whose category the filter admits, in id order.
RECURSIVE Filtered(_, _, _)
Filtered(documents, category, i) ==
    IF i > Len(documents) THEN <<>>
    ELSE IF category = "" \/ documents[i] = category
         THEN <<i>> \o Filtered(documents, category, i + 1)
         ELSE Filtered(documents, category, i + 1)

\* AppwriteClient.get_news: result.get("documents", []) of the listing,
\* filtered by category when one is given; [] when the answer is the payload
\* {"error": ...}.
GatewayGetNews(documents, category, ok) ==
    IF MakeRequest("GET", ok, Payload("list", NoId, {})).kind = "list"
    THEN Filtered(documents, category, 1)
    ELSE <<>>

\* AppwriteClient.create_news: a POST; the handler ignores its answer.
CreateNews(documents, category, ok) ==
    IF MakeRequest("POST", ok, Payload("doc", Len(documents) + 1, {})).kind = "doc"
    THEN Append(documents, category)
    ELSE documents

\* get_news: the listing; "if not news_articles" the two placeholders are
\* created and the listing is read again; the articles listed are answered.
GetNews ==
    /\ \E category \in CategoryParams, listOk \in BOOLEAN,
          firstOk \in BOOLEAN, secondOk \in BOOLEAN, againOk \in BOOLEAN :
        LET before == news.documents
            listed == GatewayGetNews(before, category, listOk)
            first == CreateNews(before, sample_news[1], firstOk)
            second == CreateNews(first, sample_news[2], secondOk)
        IN IF listed # <<>>
           THEN /\ firstOk /\ secondOk /\ againOk
                /\ news' = [documents |-> before,
                            last |-> [category |-> category, list_ok |-> listOk,
                                      before |-> before, listed |-> listed,
                                      creates |-> 0, answered |-> listed,
                                      status |-> 200]]
           ELSE /\ Len(second) <= MaxNews
                /\ news' = [documents |-> second,
                            last |-> [category |-> category, list_ok |-> listOk,
                                      before |-> before, listed |-> listed,
                                      creates |-> Len(sample_news),
                                      answered |-> GatewayGetNews(second, category,
                                                                  againOk),
                                      status |-> 200]]
    /\ UNCHANGED <<main, gateway, schema, provision, cipher>>

\* The News collection as the process finds it: empty, or holding articles
\* written to it before.
NewsInit ==
    /\ StartOfProcess /\ configured
    /\ gateway = NoGatewayCall
    /\ schema = ConfiguredSchema
    /\ provision = NoProvision
    /\ cipher = NoCipher
    /\ news \in {[NoNews EXCEPT !.documents = d] :
                    d \in SeqUpTo(Categories, MaxNews - Len(sample_news))}

NewsNext == GetNews

NewsSpec == NewsInit /\ [][NewsNext]_vars

---------------------------------------------------------------------------
(* Properties *)

FacadeKinds == {"trade", "close", "positions", "account"}

\* The calls of the connect sequence, as a successful connect_account issues
\* them after the registry listing.
DeploySequence ==
    <<"deploy", "wait_deployed", "wait_connected", "connect",
      "wait_synchronized", "get_account_information">>

\* The names of the trading-backend calls of a trace, in order.
RECURSIVE BrokerTrace(_)
BrokerTrace(t) ==
    IF t = <<>> THEN <<>>
    ELSE IF Head(t).call \in BrokerCalls
         THEN <<Head(t).call>> \o BrokerTrace(Tail(t))
         ELSE BrokerTrace(Tail(t))

\* C1: a facade operation (place_trade, close_position, get_positions,
\* get_account_info) for a login without a cache entry fails with the
\* not-connected error and issues no call on any connection.
C1_NotConnectedNoCall ==
    \A r \in Req :
        (reqs[r].kind \in FacadeKinds /\ reqs[r].facade /\ ~reqs[r].cached)
        => /\ reqs[r].pc = "done"
           /\ reqs[r].err = "Account not connected"
           /\ reqs[r].conn = NoConn
           /\ CallsOf(reqs[r].trace, ConnectionCalls) = {}

\* C1 witness: a trade for an existing user whose login has no cache entry,
\* while a connection object of a failed connect exists.
C1_Witness ==
    \E r \in Req :
        /\ reqs[r].kind = "trade" /\ reqs[r].facade /\ ~reqs[r].cached
        /\ reqs[r].err = "Account not connected"
        /\ Len(connections) > 0

\* C2: when an awaited call of connect_account fails, the request is answered
\* with an error naming the failed call and the session cache is left exactly
\* as it was: nothing added, removed or replaced.
C2_FailedConnectKeepsCache ==
    [][\A r \in Req :
        (/\ reqs[r].kind = "connect" /\ reqs[r].pc \in ConnectAwaits
         /\ reqs'[r].pc = "done" /\ reqs'[r].status # 200)
        => /\ accounts' = accounts
           /\ reqs'[r].status = 500
           /\ reqs'[r].err = reqs[r].pc]_vars

\* C2 witness: a connect failed at the account-information fetch for a login
\* that still has the cache entry of an earlier successful connect.
C2_Witness ==
    \E r \in Req :
        /\ reqs[r].kind = "connect" /\ reqs[r].pc = "done"
        /\ reqs[r].status = 500 /\ reqs[r].err = "get_account_information"
        /\ reqs[r].login \in DOMAIN accounts
        /\ accounts[reqs[r].login].connection # reqs[r].conn

\* C3: a facade operation for a login that connect_account has returned for
\* finds the cache entry, issues its connection calls on the cached connection
\* and issues no registry, deploy or synchronize call.
C3_CachedSessionReused ==
    \A r \in Req :
        (reqs[r].kind \in FacadeKinds /\ reqs[r].facade /\ reqs[r].after_connect)
        => /\ reqs[r].cached
           /\ reqs[r].conn = reqs[r].cached_conn
           /\ \A i \in CallsOf(reqs[r].trace, ConnectionCalls) :
                reqs[r].trace[i].on = reqs[r].cached_conn
           /\ CallNames(reqs[r].trace) \cap
                (RegistryCalls \cup AccountCalls \cup SequenceCalls) = {}

\* C3 witness: a trade executed on the cached connection while a newer
\* connection object exists.
C3_Witness ==
    \E r \in Req :
        /\ reqs[r].kind = "trade" /\ reqs[r].after_connect
        /\ reqs[r].pc = "done" /\ reqs[r].status = 200
        /\ reqs[r].cached_conn < Len(connections)

\* C4 (as claimed): a connect request for a login that has a cached session is
\* served from the cache and issues no deploy, wait-deployed, wait-connected,
\* RPC connect or wait-synchronized call.
C4_ConnectServedFromCache ==
    \A r \in Req :
        (reqs[r].kind = "connect" /\ reqs[r].cached)
        => /\ reqs[r].pc \notin AccountCalls \cup SequenceCalls
           /\ CallNames(reqs[r].trace) \cap (AccountCalls \cup SequenceCalls) = {}

\* C4 (amended): every connect request answered 200, for a cached login too,
\* has run the whole sequence after the registry listing on a connection
\* object of its own, and the cache entry of the login is its handle pair.
C4_ConnectRerunsSequence ==
    \A r \in Req :
        (reqs[r].kind = "connect" /\ reqs[r].pc = "done" /\ reqs[r].status = 200)
        => /\ BrokerTrace(reqs[r].trace) \in
                {<<"get_accounts">> \o DeploySequence,
                 <<"get_accounts", "create_account">> \o DeploySequence}
           /\ reqs[r].conn # reqs[r].cached_conn
           /\ accounts[reqs[r].login] =
                [account |-> reqs[r].account, connection |-> reqs[r].conn]

\* C4 witness: a connect request answered 200 for a login that had a cached
\* session when connect_account was entered.
C4_Witness ==
    \E r \in Req :
        /\ reqs[r].kind = "connect" /\ reqs[r].pc = "done"
        /\ reqs[r].status = 200 /\ reqs[r].cached

\* C5: under sequential requests there is at most one User document per
\* (login, server) pair, also when document-store calls may fail.
C5_OneUserPerPairSequential ==
    ~overlapped =>
        \A l \in Logins, sv \in Servers : Cardinality(UsersMatching(l, sv)) <= 1

C7_LastConnectWins ==
    [][\A r \in Req :
        (/\ reqs[r].kind = "connect" /\ reqs[r].pc = "get_account_information"
         /\ reqs'[r].pc = "done" /\ reqs'[r].status = 200)
        => /\ accounts'[reqs[r].login] =
                [account |-> reqs[r].account, connection |-> reqs[r].conn]
           /\ \A l \in DOMAIN accounts \ {reqs[r].login} :
                l \in DOMAIN accounts' /\ accounts'[l] = accounts[l]
           /\ connections' = connections
           /\ registry' = registry
           /\ deployed' = deployed]_vars

\* C7 witness: two connect requests for the same login both created a registry
\* account (each listing came before the other's create) and both finished;
\* the cache holds the pair of the one answered now, and the connection of the
\* other is still synchronized but no longer referenced.
C7_Witness ==
    \E r \in Req :
        /\ reqs[r].kind = "connect" /\ reqs[r].pc = "done" /\ reqs[r].status = 200
        /\ "create_account" \in CallNames(reqs[r].trace)
        /\ accounts[reqs[r].login] =
                [account |-> reqs[r].account, connection |-> reqs[r].conn]
        /\ \E c \in 1 .. Len(connections) :
            /\ c # reqs[r].conn
            /\ connections[c].state = "synchronized"
            /\ connections[c].account # reqs[r].account
            /\ registry[connections[c].account] = registry[reqs[r].account]
            /\ \A q \in Req : reqs[q].conn # c \/ q = r
            /\ \A l \in DOMAIN accounts : accounts[l].connection # c

\* C8: with the trading backend not configured, POST /api/users/connect is
\* answered 503 and makes no document-store or backend call.
C8_UnconfiguredConnect503 ==
    \A r \in Req :
        (reqs[r].kind = "connect" /\ reqs[r].pc = "done" /\ ~configured)
        => reqs[r].status = 503 /\ reqs[r].trace = <<>>

\* C9: GET /api/users/{id} is answered 404 when no User document has that id.
C9_AbsentUser404 ==
    \A r \in Req :
        (reqs[r].kind = "user" /\ reqs[r].pc = "done" /\ ~reqs[r].user_existed)
        => reqs[r].status = 404

\* C10: with the backend configured, a trade, close or account request naming
\* an absent user id or position id is answered 404 and makes no broker call.
C10_AbsentReference404 ==
    \A r \in Req :
        (/\ configured
         /\ reqs[r].kind \in {"trade", "close", "account"}
         /\ reqs[r].pc = "done"
         /\ (~reqs[r].user_existed
                \/ (reqs[r].kind = "close" /\ ~reqs[r].pos_existed)))
        => /\ reqs[r].status = 404
           /\ CallNames(reqs[r].trace) \cap BrokerCalls = {}

C12_TradeSuccessCreatesOnePosition ==
    [][\A r \in Req :
        (reqs'[r].kind = "trade" /\ reqs'[r] # reqs[r])
        => IF reqs'[r].pc = "done" /\ reqs'[r].status = 200
           THEN /\ reqs'[r].cached
                /\ Len(positions') = Len(positions) + 1
                /\ SubSeq(positions', 1, Len(positions)) = positions
                /\ reqs'[r].position_id = Len(positions')
                /\ LET d == positions'[Len(positions')]
                       res == reqs'[r].result
                   IN /\ d.user_id = reqs'[r].user_id
                      /\ d.status = "open"
                      /\ d.profit = 0
                      /\ d.open_price = d.current_price
                      /\ res.openPrice # Absent => d.open_price = res.openPrice
                      /\ (res.openPrice = Absent /\ res.price # Absent)
                            => d.open_price = res.price
           ELSE positions' = positions]_vars

\* C12 witness: a trade answered with success whose execution result carries
\* both 'openPrice' and 'price'; the document holds the former twice.
C12_Witness ==
    \E r \in Req :
        /\ reqs[r].kind = "trade" /\ reqs[r].pc = "done" /\ reqs[r].status = 200
        /\ reqs[r].result.openPrice = 7 /\ reqs[r].result.price = 9
        /\ positions[reqs[r].position_id].open_price = 7
        /\ positions[reqs[r].position_id].current_price = 7

\* C13: whenever POST /api/positions/close is answered with success, the
\* referenced Position document has status "closed" and closed_at set, also
\* when the update call to the document store failed.
C13_CloseSuccessMeansClosed ==
    \A r \in Req :
        (reqs[r].kind = "close" /\ reqs[r].pc = "done" /\ reqs[r].status = 200)
        => /\ positions[reqs[r].position_id].status = "closed"
           /\ positions[reqs[r].position_id].closed_at

\* A Position document is open with closed_at unset, or closed with it set.
PositionLifecycle(d) ==
    \/ d.status = "open" /\ ~d.closed_at
    \/ d.status = "closed" /\ d.closed_at

C15_GatewayFailureIsPayload ==
    (gateway.op # "none" /\ ~gateway.ok)
    => /\ gateway.returned.kind # "raise"
       /\ gateway.op \in {"create_user", "update_user", "delete_user",
                          "get_user_by_id", "create_position",
                          "update_position", "delete_position",
                          "get_position_by_id"}
            => gateway.returned = ErrorPayload
       /\ gateway.op = "get_positions"
            => gateway.returned = Payload("list", NoId, {})
       /\ gateway.op = "get_user_by_broker_account"
            => gateway.returned = Payload("none", NoId, {})

\* C15 witness: the lookup of a user that exists failed and returned no user.
C15_Witness ==
    /\ gateway.op = "get_user_by_broker_account" /\ ~gateway.ok
    /\ gateway.returned.kind = "none"
    /\ \E i \in 1 .. Len(users) : ~users[i].deleted

C17_RoundTripAndTamperFails ==
    cipher.pc = "decrypted"
    => /\ cipher.altered = "none"
            => cipher.result = [raised |-> FALSE, plaintext |-> cipher.password]
       /\ cipher.altered \in {"auth_tag", "encrypted", "key"}
            => cipher.result = [raised |-> TRUE, plaintext |-> Absent]

IsPrefix(p, t) == Len(p) <= Len(t) /\ SubSeq(t, 1, Len(p)) = p

\* The calls of connect_account in the order of the claim, without and with
\* the create-account call.
LocatedSequence == <<"get_accounts">> \o DeploySequence
CreatedSequence == <<"get_accounts", "create_account">> \o DeploySequence

\* The calls a connect request has issued: those that returned and the one it
\* awaits (or the one that failed, which its trace ends with).
Issued(q) ==
    IF q.pc \in ConnectAwaits
    THEN BrokerTrace(q.trace) \o <<q.pc>>
    ELSE BrokerTrace(q.trace)

\* C18: the calls a connect request has issued are, in order, the start of
\* registry lookup, create-account (not-found branch only), deploy,
\* wait-deployed, wait-connected, RPC connect, wait-synchronized, account
\* information; a call that failed is the last one issued; and the session
\* cache changes only in the step in which the account-information fetch of a
\* request that issued the whole sequence returns.
C18_ConnectSequenceOrder ==
    [][/\ \A r \in Req :
            reqs'[r].kind = "connect"
            => /\ \/ IsPrefix(Issued(reqs'[r]), LocatedSequence)
                  \/ IsPrefix(Issued(reqs'[r]), CreatedSequence)
               /\ (reqs'[r].pc = "done" /\ reqs'[r].err \in ConnectAwaits)
                    => /\ reqs[r].pc = reqs'[r].err
                       /\ Issued(reqs'[r]) = Issued(reqs[r])
       /\ accounts' # accounts
            => \E r \in Req :
                /\ reqs[r].kind = "connect"
                /\ reqs[r].pc = "get_account_information"
                /\ reqs'[r].pc = "done" /\ reqs'[r].status = 200
                /\ BrokerTrace(reqs'[r].trace) \in
                        {LocatedSequence, CreatedSequence}
                /\ accounts' = CacheSession(reqs[r].login, reqs[r].account,
                                            reqs[r].conn)]_vars

\* C18 witness: a connect on the not-found branch has issued all eight calls
\* and its handle pair is cached.
C18_Witness ==
    \E r \in Req :
        /\ reqs[r].kind = "connect" /\ reqs[r].pc = "done"
        /\ BrokerTrace(reqs[r].trace) = CreatedSequence
        /\ reqs[r].login \in DOMAIN accounts
        /\ accounts[reqs[r].login].connection = reqs[r].conn

\* The registry accounts with the given login and server.
RegistryMatching(login, server) ==
    {i \in 1 .. Len(registry) :
        registry[i].login = login /\ registry[i].server = server}

\* C19: when the registry listing returns, connect_account goes on to
\* create-account if and only if the listing holds no account with the
\* requested login and server, and else takes a matching account; the account
\* a successful connect deployed and cached is that account (no create call
\* issued) or the one it created; under sequential requests the registry
\* never holds two accounts for one (login, server).
C19_CreateOnlyWhenNotListed ==
    [][/\ \A r \in Req :
            /\ (reqs[r].pc = "get_accounts" /\ reqs'[r].pc # "done"
                    /\ reqs'[r] # reqs[r])
                => LET m == RegistryMatching(reqs[r].login, reqs[r].server)
                   IN /\ reqs'[r].pc = "create_account" <=> m = {}
                      /\ m # {} => reqs'[r].pc = "deploy" /\ reqs'[r].account \in m
            /\ (reqs'[r].kind = "connect" /\ reqs[r].pc # "done"
                    /\ reqs'[r].pc = "done" /\ reqs'[r].status = 200)
                => /\ accounts'[reqs'[r].login].account = reqs'[r].account
                   /\ reqs'[r].account \in deployed'
                   /\ reqs'[r].account \in
                        RegistryMatching(reqs'[r].login, reqs'[r].server)
                   /\ "create_account" \in CallNames(reqs'[r].trace)
                        <=> BrokerTrace(reqs'[r].trace) = CreatedSequence
       /\ ~overlapped'
            => \A p \in Pairs :
                Cardinality({i \in 1 .. Len(registry') :
                    registry'[i].login = p[1] /\ registry'[i].server = p[2]}) <= 1
      ]_vars

\* C19 witness: under sequential requests a connect found the account an
\* earlier connect had created for the pair, issued no create call and cached
\* that account, while the registry holds another account of the same login.
C19_Witness ==
    \E r \in Req :
        /\ ~overlapped
        /\ reqs[r].kind = "connect" /\ reqs[r].pc = "done" /\ reqs[r].status = 200
        /\ BrokerTrace(reqs[r].trace) = LocatedSequence
        /\ accounts[reqs[r].login].account = reqs[r].account
        /\ \E i \in 1 .. Len(registry) :
            /\ registry[i].login = reqs[r].login
            /\ registry[i].server # reqs[r].server

\* C20: a trade request whose order the broker executed is answered with
\* success only if a Position document carries that order; when the create
\* call failed, so that no document carries it, the request is answered 500
\* and after the order call it issued the one create call and nothing else
\* (no close, no second create).
C20_ExecutedButNotPersisted ==
    \A r \in Req :
        (reqs[r].kind = "trade" /\ reqs[r].pc = "done" /\ reqs[r].order # NoId)
        => LET persisted == \E i \in 1 .. Len(positions) :
                                positions[i].broker_position_id = reqs[r].order
           IN /\ orders >= reqs[r].order
              /\ persisted <=> reqs[r].status = 200
              /\ ~persisted
                    => /\ reqs[r].status = 500
                       /\ BrokerTrace(reqs[r].trace) = <<OrderCall(reqs[r].param)>>
                       /\ Cardinality(CallsOf(reqs[r].trace,
                                              {"create_position"})) = 1
                       /\ reqs[r].trace[Len(reqs[r].trace)].call = "create_position"

\* C20 witness: the broker executed the order of a trade answered 500 and the
\* Positions collection holds no document for it.
C20_Witness ==
    \E r \in Req :
        /\ reqs[r].kind = "trade" /\ reqs[r].pc = "done"
        /\ reqs[r].order # NoId /\ reqs[r].order = orders
        /\ reqs[r].status = 500 /\ reqs[r].err = "KeyError"
        /\ \A i \in 1 .. Len(positions) :
                positions[i].broker_position_id # reqs[r].order

\* C21: when a run of initialize_database had every call answered by the
\* store, every configured attribute of every configured collection exists
\* after it, also when a collection existed before the run and lacked some.
C21_ProvisionCompletesAttributes ==
    (provision.run = 2 /\ provision.faults = 0)
    => provision.after_first = ConfiguredSchema

\* C22: the session cache changes only in the step in which a connect
\* completes successfully, and then by the entry of that connect's login being
\* added or overwritten; no login ever loses its entry, and no step of a trade,
\* close, positions or account-info operation, answered or failed, changes it.
C22_CacheOnlyBySuccessfulConnect ==
    [][/\ DOMAIN accounts \subseteq DOMAIN accounts'
       /\ (accounts' # accounts) =>
            \E r \in Req :
                /\ reqs[r].kind = "connect"
                /\ reqs[r].pc = "get_account_information"
                /\ reqs'[r].pc = "done" /\ reqs'[r].status = 200
                /\ accounts' = CacheSession(reqs[r].login, reqs[r].account,
                                             reqs[r].conn)
       /\ \A r \in Req :
            (reqs[r].kind \in FacadeKinds /\ reqs'[r] # reqs[r])
            => accounts' = accounts]_vars

\* C22 witness: a positions request whose listing at the broker failed on the
\* cached connection, and the login still has exactly that cache entry.
C22_Witness ==
    \E r \in Req :
        /\ reqs[r].kind = "positions" /\ reqs[r].pc = "done"
        /\ reqs[r].cached /\ reqs[r].err = "get_positions"
        /\ reqs[r].login \in DOMAIN accounts
        /\ accounts[reqs[r].login].connection = reqs[r].cached_conn

\* C23: a trade whose facade call found a cached session has exactly one
\* order call in its trace when its type is "buy" or "sell" ignoring case (the
\* buy call exactly for "buy", the sell call only for "sell") and no order
\* call when its type is neither.
C23_OrderCallByType ==
    \A r \in Req :
        (/\ reqs[r].kind = "trade" /\ reqs[r].cached
         /\ reqs[r].pc = "done")
        => LET t == reqs[r].trace
               buys == CallsOf(t, {"create_market_buy_order"})
               sells == CallsOf(t, {"create_market_sell_order"})
           IN /\ (buys # {}) <=> (Lower(reqs[r].param) = "buy")
              /\ (sells # {}) => (Lower(reqs[r].param) = "sell")
              /\ Lower(reqs[r].param) \in {"buy", "sell"}
                    => Cardinality(buys \cup sells) = 1
              /\ Lower(reqs[r].param) \notin {"buy", "sell"}
                    => buys \cup sells = {}

\* C24: a GET /api/news that found the News collection holding articles
\* created no News document, whatever its category filter and also when the
\* listing call failed; placeholders are created only for an empty collection.
C24_PlaceholdersOnlyWhenEmpty ==
    (news.last.status # 0 /\ news.last.before # <<>>)
    => news.documents = news.last.before

\* C25: every trade, close, positions or account-info operation that reaches
\* the broker does so on a connection opened for a registry account with the
\* login and the server of the operation's own User document.
C25_OwnPairSession ==
    \A r \in Req :
        (/\ reqs[r].kind \in FacadeKinds /\ reqs[r].facade
         /\ reqs[r].conn # NoConn)
        => LET own == users[reqs[r].uid]
               acc == registry[connections[reqs[r].conn].account]
           IN /\ acc.login = own.broker_account
              /\ acc.server = own.server

\* C26: a connect for a (login, server) pair that had a User document is
\* answered with the user id and the account snapshot only when the password
\* it supplied is the account's password.
C26_ExistingUserNeedsPassword ==
    \A r \in Req :
        (/\ reqs[r].kind = "connect" /\ reqs[r].pc = "done"
         /\ reqs[r].lookup = "found" /\ reqs[r].status = 200)
        => reqs[r].password = AccountPassword

\* The close request r has issued its broker close call.
CloseIssued(r) ==
    /\ reqs[r].kind = "close"
    /\ \/ reqs[r].pc = "close_position"
       \/ CallsOf(reqs[r].trace, {"close_position"}) # {}

\* C27: a close request issues its broker close call, and so comes to modify
\* the Position document, only for a Position whose user_id is the user_id of
\* the request.
C27_CloseOnlyOwnPosition ==
    \A r \in Req :
        CloseIssued(r)
        => positions[reqs[r].position_id].user_id = reqs[r].user_id

\* C28: a close request that found its Position closed issues no broker close
\* call, and no two close requests for one Position both issue one.
C28_AtMostOneClose ==
    \A r \in Req :
        CloseIssued(r)
        => /\ reqs[r].pos_status # "closed"
           /\ \A q \in Req \ {r} :
                ~(CloseIssued(q) /\ reqs[q].position_id = reqs[r].position_id)

====
